---- MODULE Spec2Model ----
(***************************************************************************)
(* Market-Monitor: the ingestion-and-reconciliation pipeline.              *)
(*                                                                         *)
(*   server/storage.ts  DatabaseStorage: getMarkets, upsertMarkets,        *)
(*                      deleteOldMarkets, deleteStaleMarkets               *)
(*   server/routes.ts   fetchPolymarket, fetchKalshi, refreshAllMarkets,   *)
(*                      registerRoutes (startup cycle, setInterval, POST), *)
(*                      in the revision whose cycle evicts stale rows      *)
(*   server/constants.ts                                                   *)
(*   shared/schema.ts   the markets table                                  *)
(*                                                                         *)
(* A refresh cycle is an async function: it runs synchronously from one    *)
(* await to the next, and at every await other cycles, the database and    *)
(* the clock may act.  An action is what happens at one await: the         *)
(* database executes the awaited statement and the cycle runs on to its    *)
(* next await.  The cycle resumes some time after the statement was        *)
(* executed, so a new Date() it takes on the way to the next statement     *)
(* lies anywhere between the two executions: the action that executes the  *)
(* next statement draws it from that interval.                             *)
(*                                                                         *)
(* Time is in minutes since an epoch that is a midnight UTC.  new Date()   *)
(* is an instant; setMinutes, setDate and setHours work on its fields in   *)
(* the time zone of the process.                                           *)
(***************************************************************************)
EXTENDS Integers, Sequences, FiniteSets, TLC

\* ---------------------------------------------------------------- bounds
\* Refresh cycles that may be in flight at once, and POST requests among
\* them.
MaxConcurrent == 2
MaxPosts == 1
\* storage.ts: const CHUNK_SIZE = 1000; scaled down so that a batch of three
\* records spans two chunks.
CHUNK_SIZE == 2
\* The instants the clock shows: the epoch, and half an hour short of a day
\* later.  LastRun is when a previous run of the server last wrote the table.
Instants == {0, 24 * 60 - 30}
LastRun == 0 - 90
\* The time zone of the process (TZ): one without daylight saving time, and
\* one whose clocks go forward an hour at SpringForward (2 a.m. EST).
Zones == {"UTC", "America/New_York"}
SpringForward == 7 * 60

\* ------------------------------------------------------------- constants
\* server/constants.ts: STALE_MARKET_THRESHOLD_MINUTES = 24 * 60
STALE_MARKET_THRESHOLD_MINUTES == 24 * 60
MinutesPerDay == 24 * 60

\* A nullable timestamp is <<>> (null) or <<t>>.
NULL == <<>>
Pending == "pending"

Slots == 1..MaxConcurrent
Adapters == {"polymarket", "kalshi"}
\* The payload a source delivers for a market changes from one response to
\* the next: a version stands for one such payload.
Versions == {1, 2}

\* ------------------------------------------------------------ the records
\* The volumes a source reports: 500 then 600 for a1, 50 then 1000 for b1.
TotalVolumeOf(id, v) ==
  IF id = "a1" THEN 400 + 100 * v ELSE IF v = 1 THEN 50 ELSE 1000
\* A market's end date: not given at first; then, half an hour before the
\* epoch for a1, and in the day after the last instant for b1.
EndDateOf(id, v) ==
  IF v = 1 THEN NULL
  ELSE IF id = "a1" THEN <<0 - 30>> ELSE <<MinutesPerDay + 600>>

\* kalshi gives an open_date, polymarket's markets here have no startDate.
StartDateOf(p) == IF p = "kalshi" THEN <<0 - 200>> ELSE NULL

\* An InsertMarket: the markets row without id and lastUpdated.
\* The source's title, volumes and end date change with the version; the
\* url, start date and rules are those of the platform's market.
InsertMarket(p, id, v) ==
  [externalId |-> id, platform |-> p, question |-> <<id, v>>,
   url |-> <<p, id>>, totalVolume |-> TotalVolumeOf(id, v), volume24h |-> v,
   startDate |-> StartDateOf(p), endDate |-> EndDateOf(id, v), resolutionRules |-> <<p>>]

\* A row of the markets table.  Its serial id is assigned by the database
\* and read by nothing: a row is told apart by its content.
Market(m, lastUpdated) ==
  [externalId |-> m.externalId, platform |-> m.platform,
   question |-> m.question, url |-> m.url, totalVolume |-> m.totalVolume,
   volume24h |-> m.volume24h, startDate |-> m.startDate,
   endDate |-> m.endDate, resolutionRules |-> m.resolutionRules,
   lastUpdated |-> lastUpdated]

\* The records an adapter can resolve to, when it resolves to any.
\* polymarket lists a1 and may list b1 as well; kalshi lists b1: b1 is an
\* id both platforms may emit.
PolymarketLists ==
  {<<InsertMarket("polymarket", "a1", v)>> : v \in Versions}
    \cup {<<InsertMarket("polymarket", "a1", 2),
            InsertMarket("polymarket", "b1", 2)>>,
          <<InsertMarket("polymarket", "b1", 2)>>}
KalshiLists ==
  {<<InsertMarket("kalshi", "b1", 1)>>}

VARIABLES
  zone,         \* the time zone of the process
  started,      \* registerRoutes has run
  timerArmed,   \* the setInterval timer exists
  now,          \* the clock, in minutes
  store,        \* the markets table: a set of rows
  pc,           \* per cycle: where it is
  origin,       \* per call: "scheduler" (startup, timer), "post" or "test"
  fetched,      \* per cycle, per adapter: "pending", "reading" (the body),
                \* "listed" or "empty"
  allMarkets,   \* per cycle: the merged batch
  chunkAt,      \* per cycle: i of upsertMarkets' loop
  since,        \* per cycle: when it reached the await it is at
  applied,      \* per cycle: the records of its statements that executed
  newest,       \* the cycle in flight that started last; 0 once it returned
  out,          \* what the step just taken delivered to its caller
  test          \* a direct caller of the storage: its call in progress

vars == <<zone, started, timerArmed, now, store, pc, origin, fetched, allMarkets,
          chunkAt, since, applied, newest, out, test>>

cycleVars ==
  <<pc, origin, fetched, allMarkets, chunkAt, since, applied, newest>>

NoOutput == [op |-> "none"]

\* before: the table when the call was made; began: the clock then; last:
\* the list of the last upsertMarkets that returned, with no delete since;
\* inARow: the call in progress repeats it.
NoTest == [before |-> {}, began |-> 0, last |-> <<>>, inARow |-> FALSE]

Range(s) == {s[k] : k \in 1..Len(s)}

Between(lo, hi) == {t \in Instants : lo <= t /\ t <= hi}

\* Date's local time: LocalTime(t) = t + the zone's offset at t; UTC(l) is
\* the instant whose local time is l (a local time the clocks skip is read
\* with the offset before the change).
UtcOffset(z, t) ==
  IF z = "UTC" THEN 0 ELSE IF t < SpringForward THEN -300 ELSE -240
LocalTime(z, t) == t + UtcOffset(z, t)
UTC(z, l) ==
  IF z = "UTC" THEN l ELSE IF l + 240 >= SpringForward THEN l + 240 ELSE l + 300

\* ------------------------------------------------------------ the storage
\* chunk = marketsList.slice(i, i + CHUNK_SIZE), i counted from 0.
\* Variant: the loop stops before a last chunk that is not full.
SliceWholeChunksOnly(list, i, n) ==
  IF i + n <= Len(list) THEN SubSeq(list, i + 1, i + n) ELSE <<>>

Slice(list, i, n) ==
  SubSeq(list, i + 1, IF i + n < Len(list) THEN i + n ELSE Len(list))

\* INSERT ... ON CONFLICT (external_id) DO UPDATE proposes every row of the
\* statement; a second proposal for a row the same statement already
\* inserted or updated makes the database reject the whole statement.
ChunkConflictsWithItself(chunk) ==
  \E j, k \in 1..Len(chunk) : j # k /\ chunk[j].externalId = chunk[k].externalId

\* Variant: the stamp is a minute behind the clock.
ConflictUpdateLateStamp(row, m, ts) ==
  [row EXCEPT !.totalVolume = m.totalVolume, !.volume24h = m.volume24h,
              !.lastUpdated = ts - 1, !.question = m.question,
              !.endDate = m.endDate]

\* Variant: set leaves totalVolume out.
ConflictUpdateKeepsVolume(row, m, ts) ==
  [row EXCEPT !.volume24h = m.volume24h, !.lastUpdated = ts,
              !.question = m.question, !.endDate = m.endDate]

\* Variant: the row in conflict is replaced by the proposed one.
ConflictUpdateReplacesRow(row, m, ts) == Market(m, ts)

\* Variant: the statement is seen when it has written the volumes and the
\* stamp of a row, and not yet its question and end date.
ConflictUpdateVolumesFirst(row, m, ts) ==
  [row EXCEPT !.totalVolume = m.totalVolume, !.volume24h = m.volume24h,
              !.lastUpdated = ts]

\* Variant: set leaves lastUpdated out.
ConflictUpdateKeepsStamp(row, m, ts) ==
  [row EXCEPT !.totalVolume = m.totalVolume, !.volume24h = m.volume24h,
              !.question = m.question, !.endDate = m.endDate]

\* ... set: { totalVolume, volume24h, lastUpdated: new Date(), question,
\* endDate }: the other columns of the existing row stay.
ConflictUpdate(row, m, ts) ==
  [row EXCEPT !.totalVolume = m.totalVolume, !.volume24h = m.volume24h,
              !.lastUpdated = ts, !.question = m.question,
              !.endDate = m.endDate]

\* Variant: the conflict target is the platform.
ConflictsOnPlatform(row, m) == row.platform = m.platform

\* target: markets.externalId
Conflicts(row, m) == row.externalId = m.externalId

HasRow(rows, m) == \E r \in rows : Conflicts(r, m)

\* Variant: a plain INSERT, without ON CONFLICT, into a table without a
\* unique index.
UpsertRowPlainInsert(rows, m, ts, dbNow) == rows \cup {Market(m, dbNow)}

\* The rows of the table after one row of the statement: a row in conflict
\* is updated; a new row takes last_updated's default, the database's
\* now().
UpsertRow(rows, m, ts, dbNow) ==
  IF HasRow(rows, m)
  THEN {IF Conflicts(r, m) THEN ConflictUpdate(r, m, ts) ELSE r : r \in rows}
  ELSE rows \cup {Market(m, dbNow)}

RECURSIVE UpsertChunk(_, _, _, _)
UpsertChunk(rows, chunk, ts, dbNow) ==
  IF chunk = <<>> THEN rows
  ELSE UpsertChunk(UpsertRow(rows, Head(chunk), ts, dbNow),
                   Tail(chunk), ts, dbNow)

\* Variant: the threshold is subtracted as hours (setHours).
CutoffInHours(z, t, minutes) == UTC(z, LocalTime(z, t) - minutes * 60)

\* deleteStaleMarkets: cutoff.setMinutes(cutoff.getMinutes() - minutes)
Cutoff(z, t, minutes) == UTC(z, LocalTime(z, t) - minutes)

\* Variant: rows whose end date has passed are deleted as well.
StaleRowsOrEnded(rows, before) ==
  {r \in rows : \/ r.lastUpdated < before
                \/ /\ r.endDate # NULL
                   /\ r.endDate[1] < before + STALE_MARKET_THRESHOLD_MINUTES}

\* DELETE ... WHERE last_updated < cutoff RETURNING id
StaleRows(rows, before) == {r \in rows : r.lastUpdated < before}

\* Variant: today is not set back to midnight.
TodayIsNow(z, t) == t

\* getMarkets: today = new Date(); today.setHours(0, 0, 0, 0)
Today(z, t) == UTC(z, (LocalTime(z, t) \div MinutesPerDay) * MinutesPerDay)

\* WHERE end_date IS NULL OR end_date >= today
Listed(rows, z, t) ==
  {r \in rows : r.endDate = NULL \/ r.endDate[1] >= Today(z, t)}

\* The decimal text of a number, and the order of texts.
RECURSIVE Digits(_)
Digits(n) == IF n < 10 THEN <<n>> ELSE Digits(n \div 10) \o <<n % 10>>
RECURSIVE TextLess(_, _)
TextLess(a, b) ==
  IF b = <<>> THEN FALSE
  ELSE IF a = <<>> THEN TRUE
  ELSE IF Head(a) # Head(b) THEN Head(a) < Head(b)
  ELSE TextLess(Tail(a), Tail(b))

\* Variant: total_volume is a text column, ordered as text.
RECURSIVE OrderByTotalVolumeDescAsText(_)
OrderByTotalVolumeDescAsText(rows) ==
  IF rows = {} THEN <<>>
  ELSE LET top == CHOOSE r \in rows :
                    \A q \in rows : ~TextLess(Digits(r.totalVolume),
                                               Digits(q.totalVolume))
       IN <<top>> \o OrderByTotalVolumeDescAsText(rows \ {top})

\* ORDER BY total_volume DESC, on the numeric value.
RECURSIVE OrderByTotalVolumeDesc(_)
OrderByTotalVolumeDesc(rows) ==
  IF rows = {} THEN <<>>
  ELSE LET top == CHOOSE r \in rows :
                    \A q \in rows : r.totalVolume >= q.totalVolume
       IN <<top>> \o OrderByTotalVolumeDesc(rows \ {top})

GetMarkets(rows, z, t) == OrderByTotalVolumeDesc(Listed(rows, z, t))

\* ------------------------------------------------------------------ Init
Init ==
  /\ zone \in Zones
  /\ started = FALSE
  /\ timerArmed = FALSE
  /\ now = 0
  /\ store \in {{}, {Market(InsertMarket("polymarket", "a1", 1), LastRun)}}
  /\ pc = [s \in Slots |-> "idle"]
  /\ origin = [s \in Slots |-> "none"]
  /\ fetched = [s \in Slots |-> [a \in Adapters |-> Pending]]
  /\ allMarkets = [s \in Slots |-> <<>>]
  /\ chunkAt = [s \in Slots |-> 0]
  /\ since = [s \in Slots |-> 0]
  /\ applied = [s \in Slots |-> <<>>]
  /\ newest = 0
  /\ out = NoOutput
  /\ test = NoTest

\* --------------------------------------------------------------- actions
Free(s) == pc[s] = "idle"
FirstFree(s) == Free(s) /\ \A q \in Slots : q < s => ~Free(q)

\* refreshAllMarkets up to its first await: both adapters are dispatched.
StartRefresh(s, from) ==
  /\ FirstFree(s)
  /\ pc' = [pc EXCEPT ![s] = "fetching"]
  /\ origin' = [origin EXCEPT ![s] = from]
  /\ newest' = s
  /\ out' = NoOutput
  /\ UNCHANGED <<fetched, allMarkets, chunkAt, since, applied>>

\* registerRoutes: the startup cycle and setInterval.
RegisterRoutes ==
  /\ ~started
  /\ started' = TRUE
  /\ timerArmed' = TRUE
  /\ StartRefresh(1, "scheduler")
  /\ UNCHANGED <<zone, now, store, test>>

\* setInterval(() => refreshAllMarkets().catch(console.error), ...)
TimerTick ==
  /\ started /\ timerArmed
  /\ \E s \in Slots : StartRefresh(s, "scheduler")
  /\ UNCHANGED <<zone, started, timerArmed, now, store, test>>

\* app.post("/api/markets/refresh"): await refreshAllMarkets()
PostRefresh ==
  /\ started
  /\ Cardinality({s \in Slots : origin[s] = "post"}) < MaxPosts
  /\ \E s \in Slots : StartRefresh(s, "post")
  /\ UNCHANGED <<zone, started, timerArmed, now, store, test>>

Settle(s, a, status) ==
  /\ pc[s] = "fetching"
  /\ fetched[s][a] = Pending
  /\ fetched' = [fetched EXCEPT ![s][a] = status]
  /\ out' = NoOutput
  /\ UNCHANGED <<zone, started, timerArmed, now, store, pc, origin, allMarkets,
                 chunkAt, since, applied, newest, test>>

\* fetchPolymarket resolves: with the records it mapped, or with [] (an
\* error return, its catch, or a source that lists nothing).  The caller
\* cannot tell a failure from a source without markets.
FetchPolymarket(s) ==
  \/ Settle(s, "polymarket", "listed")
  \/ Settle(s, "polymarket", "empty")

FetchKalshi(s) ==
  \/ Settle(s, "kalshi", "listed")
  \/ Settle(s, "kalshi", "empty")

\* ------------------------------------------- an adapter's call, step by step
\* What the source may send after a 200: text that is not JSON; JSON of
\* another shape (no array for polymarket, no markets field for kalshi); a
\* list with an entry the mapping cannot read (null, a title that is no
\* string); a list without markets; a list of markets.
Bodies == {"bad_json", "bad_shape", "bad_entry", "none", "markets"}

\* Variant: the adapter has no catch.
AdapterCatchRethrows(a) == "rejected"

\* catch (error) { console.error(...); return []; }
AdapterCatch(a) == "empty"

\* The adapter from await response.json() on: json() throws on bad_json;
\* bad_shape ends in return [] (polymarket) or in data.markets || []
\* (kalshi); a bad entry throws a TypeError inside filter or map.
AdapterResult(a, body) ==
  IF body \in {"bad_json", "bad_entry"} THEN AdapterCatch(a)
  ELSE IF body \in {"bad_shape", "none"} THEN "empty"
  ELSE "listed"

\* The adapter's promise settles.
SettleAs(s, a, response, result) ==
  /\ fetched' = [fetched EXCEPT ![s][a] = result]
  /\ out' = [op |-> "fetch", adapter |-> a, response |-> response,
             result |-> result]
  /\ UNCHANGED <<zone, started, timerArmed, now, store, pc, origin, allMarkets,
                 chunkAt, since, applied, newest, test>>

\* fetch resolves with the response's status and headers, and finally()
\* clears the timeout.  Not ok: return [].  Ok: await response.json().
Responds(s, a) ==
  /\ pc[s] = "fetching"
  /\ fetched[s][a] = Pending
  /\ \/ SettleAs(s, a, "not_ok", "empty")
     \/ /\ fetched' = [fetched EXCEPT ![s][a] = "reading"]
        /\ out' = NoOutput
        /\ UNCHANGED <<zone, started, timerArmed, now, store, pc, origin,
                       allMarkets, chunkAt, since, applied, newest, test>>

\* fetch rejects: the connection failed.
NetworkError(s, a) ==
  /\ pc[s] = "fetching"
  /\ fetched[s][a] = Pending
  /\ SettleAs(s, a, "network_error", AdapterCatch(a))

\* The timeout set by fetchWithTimeout fires while fetch is pending:
\* controller.abort() rejects it.
RequestTimeout(s, a) ==
  /\ pc[s] = "fetching"
  /\ fetched[s][a] = Pending
  /\ SettleAs(s, a, "timeout", AdapterCatch(a))

\* response.json() settles, and the adapter runs to its end.
ReadBody(s, a) ==
  /\ pc[s] = "fetching"
  /\ fetched[s][a] = "reading"
  /\ \E body \in Bodies : SettleAs(s, a, body, AdapterResult(a, body))

Lists(a) == IF a = "polymarket" THEN PolymarketLists ELSE KalshiLists

\* Variant: a failed adapter's records are taken from its source all the
\* same.
ResolvedAnyway(s, a) == Lists(a)

\* What the adapter resolved to: .catch(() => []) and the adapter's own
\* catch make a failure the empty list.  Nothing reads the list before
\* the merge, so the source's answer is drawn there.
Resolved(s, a) == IF fetched[s][a] = "listed" THEN Lists(a) ELSE {<<>>}

\* Variant: the cycle goes on when the first adapter has settled.
AnySettled(s) == \E a \in Adapters : fetched[s][a] \notin {Pending, "reading"}

\* Promise.all has resolved.
AllSettled(s) == \A a \in Adapters : fetched[s][a] \notin {Pending, "reading"}

\* const allMarkets = [...poly, ...kalshi]
Concat(poly, kalshi) == poly \o kalshi

\* Variant: the catch rethrows.
GlobalCatchRethrows(thrown) == IF thrown THEN "rejected" ELSE "resolved"

\* try { ... } catch (error) { console.error(...) }: whatever was thrown
\* inside, refreshAllMarkets' promise resolves.
GlobalCatch(thrown) == "resolved"

\* Variant: the catch clears the interval.
AfterCatchClearsInterval(armed, thrown) == armed /\ ~thrown

\* The catch block logs and does nothing else: the interval set by
\* registerRoutes is not cleared.
AfterCatch(armed, thrown) == armed

\* What refreshAllMarkets logs of deleteStaleMarkets: whether it returned,
\* and its removedCount.
NoEviction == [ran |-> FALSE, removed |-> 0]

\* refreshAllMarkets returns to its caller.  The scheduler's call ends
\* there; the POST handler goes on to await storage.getMarkets().
Return(s, thrown, eviction) ==
  /\ out' = [op |-> "refreshAllMarkets", caught |-> thrown,
             promise |-> GlobalCatch(thrown), eviction |-> eviction]
  /\ timerArmed' = AfterCatch(timerArmed, thrown)
  /\ pc' = [pc EXCEPT ![s] = IF origin[s] = "post" THEN "post_back"
                             ELSE "idle"]
  /\ origin' = [origin EXCEPT ![s] = IF origin[s] = "post" THEN "post"
                                     ELSE "none"]
  /\ fetched' = [fetched EXCEPT ![s] = [a \in Adapters |-> Pending]]
  /\ allMarkets' = [allMarkets EXCEPT ![s] = <<>>]
  /\ chunkAt' = [chunkAt EXCEPT ![s] = 0]
  /\ since' = [since EXCEPT ![s] = 0]
  /\ applied' = [applied EXCEPT ![s] = IF origin[s] = "post" THEN applied[s]
                                       ELSE <<>>]
  /\ newest' = IF newest = s THEN 0 ELSE newest

\* Variant: the length check is missing.
NonEmptyUnchecked(list) == TRUE

\* if (allMarkets.length > 0)
NonEmpty(list) == Len(list) > 0

\* refreshAllMarkets from Promise.all to the next await: the merge, and
\* for a non-empty batch upsertMarkets up to the first chunk's statement.
Merge(s) ==
  /\ pc[s] = "fetching"
  /\ AllSettled(s)
  /\ \E poly \in Resolved(s, "polymarket"), kalshi \in Resolved(s, "kalshi") :
       IF NonEmpty(Concat(poly, kalshi))
       THEN /\ pc' = [pc EXCEPT ![s] = "upserting"]
            /\ allMarkets' = [allMarkets EXCEPT ![s] = Concat(poly, kalshi)]
            /\ since' = [since EXCEPT ![s] = now]
            /\ out' = NoOutput
            /\ UNCHANGED <<origin, fetched, chunkAt, applied, newest,
                           timerArmed>>
       ELSE Return(s, FALSE, NoEviction)
  /\ UNCHANGED <<zone, started, now, store, test>>

\* upsertMarkets returns to, or throws at, a direct caller.
TestReturn(s, threw) ==
  /\ out' = [op |-> "upsertMarkets", threw |-> threw, list |-> allMarkets[s],
             before |-> test.before, began |-> test.began,
             inARow |-> test.inARow]
  /\ test' = [before |-> {}, began |-> 0, inARow |-> FALSE,
              last |-> IF threw THEN <<>> ELSE allMarkets[s]]
  /\ pc' = [pc EXCEPT ![s] = "idle"]
  /\ origin' = [origin EXCEPT ![s] = "none"]
  /\ allMarkets' = [allMarkets EXCEPT ![s] = <<>>]
  /\ chunkAt' = [chunkAt EXCEPT ![s] = 0]
  /\ since' = [since EXCEPT ![s] = 0]
  /\ applied' = [applied EXCEPT ![s] = <<>>]
  /\ UNCHANGED newest
  /\ UNCHANGED <<fetched, timerArmed>>

\* The chunk of the statement in flight.
Chunk(s) == Slice(allMarkets[s], chunkAt[s], CHUNK_SIZE)

\* lastUpdated: new Date(), taken as the chunk's statement is built: for the
\* first chunk in the step that merged, for a later one when upsertMarkets
\* resumed after the chunk before.
Stamps(s) == IF chunkAt[s] = 0 THEN {since[s]} ELSE Between(since[s], now)

\* Variant: a failed statement makes upsertMarkets start over.
UpsertThrowsRetries(s) ==
  /\ chunkAt' = [chunkAt EXCEPT ![s] = 0]
  /\ since' = [since EXCEPT ![s] = now]
  /\ out' = NoOutput
  /\ UNCHANGED <<pc, origin, fetched, allMarkets, applied, newest, test,
                 timerArmed>>

\* Variant: a failed statement is caught inside the loop, which goes on
\* with the next chunk.
UpsertThrowsSkipsChunk(s) ==
  IF chunkAt[s] + CHUNK_SIZE < Len(allMarkets[s])
  THEN /\ chunkAt' = [chunkAt EXCEPT ![s] = chunkAt[s] + CHUNK_SIZE]
       /\ since' = [since EXCEPT ![s] = now]
       /\ out' = NoOutput
       /\ UNCHANGED <<pc, origin, fetched, allMarkets, applied, newest, test,
                      timerArmed>>
  ELSE IF origin[s] = "test"
  THEN TestReturn(s, FALSE)
  ELSE Return(s, FALSE, NoEviction) /\ UNCHANGED test

\* The statement's error rejects upsertMarkets' promise: the loop is left,
\* and the await in refreshAllMarkets throws into its catch, past the call
\* of deleteStaleMarkets.
UpsertThrows(s) ==
  IF origin[s] = "test"
  THEN TestReturn(s, TRUE)
  ELSE Return(s, TRUE, NoEviction) /\ UNCHANGED test

\* await db.insert(markets).values(chunk).onConflictDoUpdate(...): the
\* database executes the statement, all of it or, on an error (a row
\* proposed twice, a lost connection), none of it.  Then the error reaches
\* the catch of refreshAllMarkets, or the loop goes to the next chunk, or
\* upsertMarkets returns and deleteStaleMarkets is called.
UpsertChunkStep(s) ==
  /\ pc[s] = "upserting"
  /\ \/ /\ ~ChunkConflictsWithItself(Chunk(s))
        /\ \E ts \in Stamps(s) : store' = UpsertChunk(store, Chunk(s), ts, now)
        /\ IF chunkAt[s] + CHUNK_SIZE < Len(allMarkets[s])
           THEN /\ chunkAt' = [chunkAt EXCEPT ![s] = chunkAt[s] + CHUNK_SIZE]
                /\ since' = [since EXCEPT ![s] = now]
                /\ applied' = [applied EXCEPT ![s] = applied[s] \o Chunk(s)]
                /\ UNCHANGED newest
                /\ out' = NoOutput
                /\ UNCHANGED <<pc, origin, fetched, allMarkets, test,
                               timerArmed>>
           ELSE IF origin[s] = "test"
           THEN TestReturn(s, FALSE)
           ELSE /\ pc' = [pc EXCEPT ![s] = "evicting"]
                /\ since' = [since EXCEPT ![s] = now]
                /\ applied' = [applied EXCEPT ![s] = applied[s] \o Chunk(s)]
                /\ UNCHANGED newest
                /\ out' = NoOutput
                /\ UNCHANGED <<chunkAt, origin, fetched, allMarkets, test,
                               timerArmed>>
     \/ /\ UpsertThrows(s)
        /\ UNCHANGED store
  /\ UNCHANGED <<zone, started, now>>

\* Variant: the DELETE has removed the stale rows when its error comes.
DeleteThrowsAfterDeleting(s) ==
  /\ store' = store \ StaleRows(store, Cutoff(zone, now,
                                              STALE_MARKET_THRESHOLD_MINUTES))
  /\ Return(s, TRUE, NoEviction)

\* The DELETE fails: the database has removed nothing, and the await in
\* refreshAllMarkets throws into its catch.
DeleteThrows(s) ==
  /\ Return(s, TRUE, NoEviction)
  /\ UNCHANGED store

\* await db.delete(markets).where(lastUpdated < cutoff).returning(): the
\* cutoff was computed when deleteStaleMarkets was called.  The statement
\* is executed and result.length returned, or its error reaches the catch.
DeleteStaleStep(s) ==
  /\ pc[s] = "evicting"
  /\ \/ \E at \in Between(since[s], now) :
          LET stale == StaleRows(store, Cutoff(zone, at, STALE_MARKET_THRESHOLD_MINUTES))
          IN /\ store' = store \ stale
             /\ Return(s, FALSE, [ran |-> TRUE,
                                  removed |-> Cardinality(stale)])
     \/ DeleteThrows(s)
  /\ UNCHANGED <<zone, started, now, test>>

\* The POST handler after await refreshAllMarkets(): storage.getMarkets()
\* and res.json(markets), or its catch and the 500.
PostRespond(s) ==
  /\ pc[s] = "post_back"
  /\ pc' = [pc EXCEPT ![s] = "idle"]
  /\ origin' = [origin EXCEPT ![s] = "none"]
  /\ \/ out' = [op |-> "POST", status |-> 200,
                body |-> GetMarkets(store, zone, now)]
     \/ out' = [op |-> "POST", status |-> 500, body |-> <<>>]
  /\ applied' = [applied EXCEPT ![s] = <<>>]
  /\ UNCHANGED newest
  /\ UNCHANGED <<zone, started, timerArmed, now, store, fetched, allMarkets,
                 chunkAt, since, test>>

\* app.get(api.markets.list.path): storage.getMarkets() and res.json, or
\* the catch and the 500.  The query reads the rows as the statements
\* executed so far have left them.
GetMarketsRoute ==
  /\ started
  /\ \/ out' = [op |-> "GET", status |-> 200,
                body |-> GetMarkets(store, zone, now)]
     \/ out' = [op |-> "GET", status |-> 500, body |-> <<>>]
  /\ UNCHANGED <<zone, started, timerArmed, now, store, test>>
  /\ UNCHANGED cycleVars

\* Time passes.
Tick ==
  /\ \E t \in Instants :
       /\ now < t
       /\ \A u \in Instants : now < u => t <= u
       /\ now' = t
  /\ out' = NoOutput
  /\ UNCHANGED <<zone, started, timerArmed, store, test>>
  /\ UNCHANGED cycleVars

\* -------------------------------------------- the storage, called directly
\* The IStorage methods called one at a time, as a test of the storage
\* does: no refresh cycle runs.
Quiet == ~started /\ \A s \in Slots : pc[s] = "idle"

\* The lists a caller passes: what a refresh cycle could pass, and [].
TestLists ==
  {Concat(poly, kalshi) : poly \in PolymarketLists \cup {<<>>},
                          kalshi \in KalshiLists \cup {<<>>}}
TestMinutes == {0, STALE_MARKET_THRESHOLD_MINUTES}
TestDays == {0, 1}

\* storage.upsertMarkets(list) up to its first await, for a list of lists.
TestUpsertMarketsOf(lists) ==
  /\ Quiet
  /\ \E list \in lists :
       LET again == test.last # <<>> /\ test.last = list IN
       IF Len(list) = 0
       THEN /\ out' = [op |-> "upsertMarkets", threw |-> FALSE, list |-> list,
                       before |-> store, began |-> now, inARow |-> again]
            /\ test' = [before |-> {}, began |-> 0, inARow |-> FALSE,
                        last |-> test.last]
            /\ UNCHANGED cycleVars
       ELSE /\ pc' = [pc EXCEPT ![1] = "upserting"]
            /\ origin' = [origin EXCEPT ![1] = "test"]
            /\ allMarkets' = [allMarkets EXCEPT ![1] = list]
            /\ since' = [since EXCEPT ![1] = now]
            /\ test' = [before |-> store, began |-> now, inARow |-> again,
                        last |-> test.last]
            /\ out' = NoOutput
            /\ UNCHANGED <<fetched, chunkAt, applied, newest>>
  /\ UNCHANGED <<zone, started, timerArmed, now, store>>

TestUpsertMarkets == TestUpsertMarketsOf(TestLists)

\* storage.deleteStaleMarkets(minutes): the cutoff is computed at the call.
TestDeleteStaleMarkets ==
  /\ Quiet
  /\ \E minutes \in TestMinutes :
       \/ LET stale == StaleRows(store, Cutoff(zone, now, minutes))
          IN /\ store' = store \ stale
             /\ out' = [op |-> "deleteStaleMarkets", threw |-> FALSE,
                        minutes |-> minutes, before |-> store,
                        removed |-> Cardinality(stale)]
       \/ /\ out' = [op |-> "deleteStaleMarkets", threw |-> TRUE,
                     minutes |-> minutes, before |-> store, removed |-> 0]
          /\ UNCHANGED store
  /\ test' = NoTest
  /\ UNCHANGED <<zone, started, timerArmed, now>>
  /\ UNCHANGED cycleVars

\* deleteOldMarkets: cutoff.setDate(cutoff.getDate() - days)
CutoffDays(z, t, days) == UTC(z, LocalTime(z, t) - days * MinutesPerDay)

\* storage.deleteOldMarkets(days), called at some time up to now: no code
\* of the program calls it.
DeleteOldMarkets(Days) ==
  /\ \E days \in Days, at \in Between(0, now) :
       \/ /\ store' = store \ StaleRows(store, CutoffDays(zone, at, days))
          /\ out' = NoOutput
       \/ /\ out' = [op |-> "deleteOldMarkets", threw |-> TRUE]
          /\ UNCHANGED store
  /\ test' = NoTest
  /\ UNCHANGED <<zone, started, timerArmed, now>>
  /\ UNCHANGED cycleVars

\* storage.getMarkets()
TestGetMarkets ==
  /\ Quiet
  /\ \/ out' = [op |-> "getMarkets", threw |-> FALSE,
                body |-> GetMarkets(store, zone, now)]
     \/ out' = [op |-> "getMarkets", threw |-> TRUE, body |-> <<>>]
  /\ UNCHANGED <<zone, started, timerArmed, now, store, test>>
  /\ UNCHANGED cycleVars

Next ==
  \/ RegisterRoutes
  \/ TimerTick
  \/ PostRefresh
  \/ \E s \in Slots : FetchPolymarket(s)
  \/ \E s \in Slots : FetchKalshi(s)
  \/ \E s \in Slots : Merge(s)
  \/ \E s \in Slots : UpsertChunkStep(s)
  \/ \E s \in Slots : DeleteStaleStep(s)
  \/ \E s \in Slots : PostRespond(s)
  \/ Tick

Spec == Init /\ [][Next]_vars

\* The storage under a caller that makes one call at a time.
NextStorage ==
  \/ TestUpsertMarkets
  \/ UpsertChunkStep(1)
  \/ TestDeleteStaleMarkets
  \/ Quiet /\ DeleteOldMarkets(TestDays)
  \/ TestGetMarkets
  \/ Tick

StorageSpec == Init /\ [][NextStorage]_vars

\* The storage under a caller whose batches have three markets, more than
\* a chunk: a1 and b1 in either version and a third market, c1.
LongLists ==
  {<<InsertMarket("polymarket", "a1", v), InsertMarket("polymarket", "b1", w),
     InsertMarket("kalshi", "c1", 1)>> : v \in Versions, w \in Versions}
    \cup {<<InsertMarket("kalshi", "c1", 2), InsertMarket("polymarket", "a1", 2)>>,
          <<InsertMarket("polymarket", "b1", 1)>>}

\* The earlier upsertMarkets: one statement for the whole list.
UpsertUnchunked(rows, list, ts, dbNow) == UpsertChunk(rows, list, ts, dbNow)

NextChunked ==
  \/ TestUpsertMarketsOf(LongLists)
  \/ UpsertChunkStep(1)
  \/ TestDeleteStaleMarkets
  \/ Tick

ChunkedSpec == Init /\ [][NextChunked]_vars

\* The program, with deleteOldMarkets called beside it.
NextWithPurge == Next \/ (started /\ DeleteOldMarkets({1}))

PurgeSpec == Init /\ [][NextWithPurge]_vars

\* The program, with clients that read the list.
NextWithReaders == Next \/ GetMarketsRoute

ReaderSpec == Init /\ [][NextWithReaders]_vars

\* ------------------------------------------------ the adapters' mapping
\* The values JSON.parse gives a field of a source entry, and NaN.  A text
\* is the sequence of its characters; a field the entry lacks is undefined.
\* Numbers are whole; no text here has a fraction or an exponent.
Undefined == [t |-> "undefined"]
Null == [t |-> "null"]
NaN == [t |-> "NaN"]
Infinity == [t |-> "Infinity"]
Num(n) == [t |-> "number", v |-> n]
Str(s) == [t |-> "string", s |-> s]
Bool(b) == [t |-> "boolean", b |-> b]

\* ToBoolean
Truthy(x) ==
  CASE x.t = "number" -> x.v # 0
    [] x.t = "string" -> x.s # <<>>
    [] x.t = "boolean" -> x.b
    [] x.t = "Infinity" -> TRUE
    [] OTHER -> FALSE

\* x || y
Or(x, y) == IF Truthy(x) THEN x ELSE y

DigitChars == <<"0", "1", "2", "3", "4", "5", "6", "7", "8", "9">>
IsDigit(c) == \E i \in 1..10 : DigitChars[i] = c
DigitValue(c) == (CHOOSE i \in 1..10 : DigitChars[i] = c) - 1

\* The number written by the longest prefix of digits.
RECURSIVE PrefixValue(_, _)
PrefixValue(s, acc) ==
  IF s = <<>> \/ ~IsDigit(Head(s)) THEN acc
  ELSE PrefixValue(Tail(s), 10 * acc + DigitValue(Head(s)))

\* parseFloat: a sign and the longest prefix that is a number; NaN when
\* there is none.  What follows the prefix is ignored.
ParseFloat(s) ==
  LET neg == s # <<>> /\ Head(s) = "-"
      body == IF neg THEN Tail(s) ELSE s
  IN IF body = <<>> \/ ~IsDigit(Head(body)) THEN NaN
     ELSE Num((IF neg THEN 0 - 1 ELSE 1) * PrefixValue(body, 0))

\* Number(value), for a value that is no text.
ToNumber(x) ==
  CASE x.t = "boolean" -> Num(IF x.b THEN 1 ELSE 0)
    [] x.t = "null" -> Num(0)
    [] x.t = "undefined" -> NaN
    [] OTHER -> x

\* Number.prototype.toString
RECURSIVE DecimalString(_)
DecimalString(n) ==
  IF n < 0 THEN <<"-">> \o DecimalString(0 - n)
  ELSE IF n < 10 THEN <<DigitChars[n + 1]>>
  ELSE DecimalString(n \div 10) \o <<DigitChars[(n % 10) + 1]>>

\* safeParseNumber: the number, a finite one, that the adapter goes on with.
safeParseNumber(value) ==
  IF value.t \in {"null", "undefined"} THEN 0
  ELSE LET num == IF value.t = "string" THEN ParseFloat(value.s)
                  ELSE ToNumber(value)
       IN IF num.t # "number" THEN 0 ELSE num.v

\* new Date(text): the one text here that is a date, 2024-03-11, is a day
\* after the epoch; any other is an Invalid Date.
DateText == <<"2", "0", "2", "4", "-", "0", "3", "-", "1", "1">>
NewDate(x) ==
  IF x.t = "string" /\ x.s = DateText
  THEN [valid |-> TRUE, time |-> MinutesPerDay]
  ELSE IF x.t = "number" THEN [valid |-> TRUE, time |-> x.v]
  ELSE [valid |-> FALSE, time |-> 0]

\* Variant: the date is not checked.
UnsafeParseDate(value) == <<NewDate(value).time>>

\* safeParseDate
safeParseDate(value) ==
  IF ~Truthy(value) THEN NULL
  ELSE LET date == NewDate(value)
       IN IF ~date.valid THEN NULL ELSE <<date.time>>

\* String.prototype.trim
RECURSIVE TrimStart(_)
TrimStart(s) == IF s # <<>> /\ Head(s) = " " THEN TrimStart(Tail(s)) ELSE s
RECURSIVE TrimEnd(_)
TrimEnd(s) ==
  IF s # <<>> /\ s[Len(s)] = " " THEN TrimEnd(SubSeq(s, 1, Len(s) - 1)) ELSE s
Trim(s) == TrimEnd(TrimStart(s))

Untitled == Str(<<"U", "n", "t", "i", "t", "l", "e", "d">>)

\* fetchPolymarket: .filter(m => m.active && !m.closed)
PolymarketActive(m) == Truthy(m.active) /\ ~Truthy(m.closed)

\* Variant: the filter on id and ticker is missing.
PolymarketHasIdUnchecked(m) == TRUE

\* .filter(m => m.id || m.ticker)
PolymarketHasId(m) == Truthy(Or(m.id, m.ticker))

\* (m.question || ... || "Untitled Market").trim() throws a TypeError when
\* the value is no text.
PolymarketThrows(m) == Or(m.question, Untitled).t # "string"

\* The InsertMarket of an entry: its id, title, volume and end date.
PolymarketRecord(m) ==
  [externalId |-> Or(m.id, m.ticker), platform |-> "polymarket",
   question |-> Trim(Or(m.question, Untitled).s),
   totalVolume |-> DecimalString(safeParseNumber(m.volume)),
   endDate |-> safeParseDate(m.endDate)]

\* Variant: an entry whose mapping throws is left out, the others mapped.
PolymarketMapSkipsBadEntries(data) ==
  LET kept == SelectSeq(SelectSeq(data, PolymarketActive), PolymarketHasId)
      good == SelectSeq(kept, LAMBDA m : ~PolymarketThrows(m))
  IN [result |-> IF good = <<>> THEN "empty" ELSE "listed",
      records |-> [k \in 1..Len(good) |-> PolymarketRecord(good[k])]]

\* fetchPolymarket from the parsed array on: what it resolves to.
PolymarketMap(data) ==
  LET kept == SelectSeq(SelectSeq(data, PolymarketActive), PolymarketHasId)
  IN IF \E k \in 1..Len(kept) : PolymarketThrows(kept[k])
     THEN [result |-> AdapterCatch("polymarket"), records |-> <<>>]
     ELSE [result |-> IF kept = <<>> THEN "empty" ELSE "listed",
           records |-> [k \in 1..Len(kept) |-> PolymarketRecord(kept[k])]]

\* fetchKalshi: .filter(m => m.ticker)
KalshiHasTicker(m) == Truthy(m.ticker)

\* (m.title || m.ticker || "Untitled Market").trim()
KalshiThrows(m) == Or(m.title, Or(m.ticker, Untitled)).t # "string"

KalshiRecord(m) ==
  [externalId |-> m.ticker, platform |-> "kalshi",
   question |-> Trim(Or(m.title, Or(m.ticker, Untitled)).s),
   totalVolume |-> DecimalString(safeParseNumber(m.volume)),
   endDate |-> safeParseDate(m.close_date)]

\* fetchKalshi from data.markets on.
KalshiMap(data) ==
  LET kept == SelectSeq(data, KalshiHasTicker)
  IN IF \E k \in 1..Len(kept) : KalshiThrows(kept[k])
     THEN [result |-> AdapterCatch("kalshi"), records |-> <<>>]
     ELSE [result |-> IF kept = <<>> THEN "empty" ELSE "listed",
           records |-> [k \in 1..Len(kept) |-> KalshiRecord(kept[k])]]

\* The entries a source may send.
VolumeValues ==
  {Undefined, Null, NaN, Infinity, Num(150), Num(0), Num(0 - 5),
   Str(<<"a", "b", "c">>), Str(<<>>), Str(<<"1", "5", "0">>),
   Str(<<"-", "5">>), Str(<<"1", "2", "a", "b", "c">>)}
DateValues == {Undefined, Str(DateText), Str(<<"s", "o", "o", "n">>)}
TitleValues == {Undefined, Str(<<" ", "Q", " ">>), Num(7)}
IdValues == {Undefined, Str(<<>>), Str(<<"a", "1">>)}
TickerValues == {Undefined, Str(<<"t", "1">>)}
StatusValues ==
  {Str(<<"a", "c", "t", "i", "v", "e">>), Str(<<"c", "l", "o", "s", "e", "d">>),
   Str(<<"s", "e", "t", "t", "l", "e", "d">>)}
PolymarketEntries ==
  [id : IdValues, ticker : TickerValues, active : {Bool(TRUE), Bool(FALSE)},
   closed : {Bool(FALSE), Bool(TRUE)}, question : TitleValues,
   volume : VolumeValues, endDate : DateValues]
KalshiEntries ==
  [ticker : IdValues, title : TitleValues, status : StatusValues,
   volume : VolumeValues, close_date : DateValues]

\* A direct caller of an adapter, with the response its source will give:
\* a list of one entry.
MapInit ==
  /\ test \in {[source |-> "polymarket", data |-> <<m>>] :
                 m \in PolymarketEntries}
         \cup {[source |-> "kalshi", data |-> <<m>>] : m \in KalshiEntries}
  /\ zone = "UTC"
  /\ started = FALSE
  /\ timerArmed = FALSE
  /\ now = 0
  /\ store = {}
  /\ pc = [s \in Slots |-> "idle"]
  /\ origin = [s \in Slots |-> "none"]
  /\ fetched = [s \in Slots |-> [a \in Adapters |-> Pending]]
  /\ allMarkets = [s \in Slots |-> <<>>]
  /\ chunkAt = [s \in Slots |-> 0]
  /\ since = [s \in Slots |-> 0]
  /\ applied = [s \in Slots |-> <<>>]
  /\ newest = 0
  /\ out = NoOutput

\* The adapter's mapping applied to the response.
MapPolymarket ==
  /\ test.source = "polymarket"
  /\ out' = [op |-> "fetchPolymarket", data |-> test.data,
             returned |-> PolymarketMap(test.data)]
  /\ UNCHANGED <<zone, started, timerArmed, now, store, test>>
  /\ UNCHANGED cycleVars

MapKalshi ==
  /\ test.source = "kalshi"
  /\ out' = [op |-> "fetchKalshi", data |-> test.data,
             returned |-> KalshiMap(test.data)]
  /\ UNCHANGED <<zone, started, timerArmed, now, store, test>>
  /\ UNCHANGED cycleVars

NextMap == MapPolymarket \/ MapKalshi

MapSpec == MapInit /\ [][NextMap]_vars

\* An entry that both filters keep and that maps to a record.
GoodPolymarketEntry ==
  [id |-> Str(<<"a", "1">>), ticker |-> Undefined, active |-> Bool(TRUE),
   closed |-> Bool(FALSE), question |-> Str(<<" ", "Q", " ">>),
   volume |-> Num(150), endDate |-> Str(DateText)]
GoodKalshiEntry ==
  [ticker |-> Str(<<"a", "1">>), title |-> Str(<<" ", "Q", " ">>),
   status |-> Str(<<"a", "c", "t", "i", "v", "e">>), volume |-> Num(150),
   close_date |-> Str(DateText)]

\* A direct caller of an adapter whose source gives a list of two entries:
\* any entry, before or after one that maps to a record.
MapTwoInit ==
  /\ test \in {[source |-> "polymarket", data |-> d] :
                 d \in UNION {{<<m, GoodPolymarketEntry>>,
                               <<GoodPolymarketEntry, m>>} :
                                m \in PolymarketEntries}}
         \cup {[source |-> "kalshi", data |-> d] :
                 d \in UNION {{<<m, GoodKalshiEntry>>,
                               <<GoodKalshiEntry, m>>} : m \in KalshiEntries}}
  /\ zone = "UTC"
  /\ started = FALSE
  /\ timerArmed = FALSE
  /\ now = 0
  /\ store = {}
  /\ pc = [s \in Slots |-> "idle"]
  /\ origin = [s \in Slots |-> "none"]
  /\ fetched = [s \in Slots |-> [a \in Adapters |-> Pending]]
  /\ allMarkets = [s \in Slots |-> <<>>]
  /\ chunkAt = [s \in Slots |-> 0]
  /\ since = [s \in Slots |-> 0]
  /\ applied = [s \in Slots |-> <<>>]
  /\ newest = 0
  /\ out = NoOutput

MapTwoSpec == MapTwoInit /\ [][NextMap]_vars

\* The scheduler's cycles, with each adapter's call step by step.  The
\* timeout fires if fetch stays pending, and a cycle whose adapters have
\* settled goes on; nothing obliges a source to answer.
NextFetch ==
  \/ RegisterRoutes
  \/ TimerTick
  \/ \E s \in Slots, a \in Adapters : Responds(s, a)
  \/ \E s \in Slots, a \in Adapters : NetworkError(s, a)
  \/ \E s \in Slots, a \in Adapters : RequestTimeout(s, a)
  \/ \E s \in Slots, a \in Adapters : ReadBody(s, a)
  \/ \E s \in Slots : Merge(s)
  \/ \E s \in Slots : UpsertChunkStep(s)
  \/ \E s \in Slots : DeleteStaleStep(s)
  \/ Tick

FetchSpec ==
  /\ Init /\ [][NextFetch]_vars
  /\ \A s \in Slots : WF_vars(Merge(s))
  /\ \A s \in Slots : \A a \in Adapters : WF_vars(RequestTimeout(s, a))

\* The scheduler's cycles, every step of which is taken in the end: the
\* interval fires, a fetch settles (a response, an error or the timeout),
\* the event loop resumes the cycle after Promise.all, and the database
\* answers each statement, with its result or with an error.
NextScheduled ==
  \/ RegisterRoutes
  \/ TimerTick
  \/ \E s \in Slots : FetchPolymarket(s)
  \/ \E s \in Slots : FetchKalshi(s)
  \/ \E s \in Slots : Merge(s)
  \/ \E s \in Slots : UpsertChunkStep(s)
  \/ \E s \in Slots : DeleteStaleStep(s)
  \/ Tick

ScheduledSpec ==
  /\ Init /\ [][NextScheduled]_vars
  /\ WF_vars(RegisterRoutes)
  /\ WF_vars(TimerTick)
  /\ WF_vars(Tick)
  /\ \A s \in Slots : /\ WF_vars(FetchPolymarket(s))
                       /\ WF_vars(FetchKalshi(s))
                       /\ WF_vars(Merge(s))
                       /\ WF_vars(UpsertChunkStep(s))
                       /\ WF_vars(DeleteStaleStep(s))

\* ================================================================ claims
Ids(rows) == {r.externalId : r \in rows}
Busy(s) == pc[s] \in {"fetching", "upserting", "evicting"}
Merged(s) == pc[s] = "fetching" /\ pc'[s] # "fetching"
UpsertDone(s) == pc[s] = "upserting" /\ pc'[s] = "evicting"
Evicted(s) == pc[s] = "evicting" /\ pc'[s] # "evicting"
Returned(s) == Busy(s) /\ pc'[s] \in {"idle", "post_back"}
Holds(rows, m) ==
  \E r \in rows : /\ r.externalId = m.externalId
                  /\ r.totalVolume = m.totalVolume
                  /\ r.volume24h = m.volume24h

UpsertTwiceInARow ==
  (out.op = "upsertMarkets" /\ ~out.threw /\ out.inARow /\ Len(out.list) = 1)
    => LET id == out.list[1].externalId
           mine == {r \in store : r.externalId = id}
           was == {r \in out.before : r.externalId = id}
       IN /\ Cardinality(mine) = 1
          /\ store \ mine = out.before \ was
          /\ \A q \in mine : \E r \in was :
               /\ q = [r EXCEPT !.lastUpdated = q.lastUpdated]
               /\ q.lastUpdated >= r.lastUpdated

\* The second call in a row has returned, later than the first.
C2_Witness ==
  /\ out.op = "upsertMarkets" /\ ~out.threw /\ out.inARow
  /\ Len(out.list) = 1
  /\ store # out.before

\* The batch's record for an id: the last one with it.
LastFor(list, id) ==
  list[CHOOSE k \in 1..Len(list) :
         /\ list[k].externalId = id
         /\ \A j \in (k + 1)..Len(list) : list[j].externalId # id]
Fresh(endDate) == endDate = NULL \/ endDate[1] >= Today(zone, now)
NewAndOld(X, Y) ==
  /\ X.externalId \notin Ids(out.before)
  /\ Y.externalId \in Ids(out.before)
  /\ Fresh(X.endDate)
  /\ Fresh(Y.endDate)

\* C3: when upsertMarkets(batch) returns without throwing, for a record X
\* of the batch whose externalId was not stored and a record Y whose
\* externalId was, both with endDate null or not before today, getMarkets()
\* lists a row for X and a row for Y, and Y's row has the batch's
\* totalVolume and volume24h.
MergeCorrect ==
  (out.op = "upsertMarkets" /\ ~out.threw)
    => LET batch == {LastFor(out.list, id) : id \in Ids(Range(out.list))}
           all == Range(GetMarkets(store, zone, now))
       IN \A X, Y \in batch :
            NewAndOld(X, Y) => /\ X.externalId \in Ids(all)
                               /\ Holds(all, Y)

\* Such a batch was upserted, and Y's stored totalVolume was another.
C3_Witness ==
  /\ out.op = "upsertMarkets" /\ ~out.threw
  /\ \E X, Y \in Range(out.list) :
       /\ NewAndOld(X, Y)
       /\ \E r \in out.before : /\ r.externalId = Y.externalId
                                /\ r.totalVolume # Y.totalVolume

\* One adapter resolved to the empty list, the other to its records.
Partial(s) ==
  \E a, b \in Adapters : fetched[s][a] = "empty" /\ fetched[s][b] = "listed"
NoneListed(s) == \A a \in Adapters : fetched[s][a] = "empty"
CycleStep(s) ==
  \/ FetchPolymarket(s) \/ FetchKalshi(s) \/ Merge(s)
  \/ UpsertChunkStep(s) \/ DeleteStaleStep(s)

\* The merge of a cycle with one failed adapter: the batch is the list of
\* the other, the failed one adds nothing to it.
PartialMerge(s) ==
  (Merged(s) /\ Partial(s))
    => /\ pc'[s] = "upserting"
       /\ \E a \in Adapters :
            fetched[s][a] = "listed" /\ allMarkets'[s] \in Lists(a)

\* No exception escapes refreshAllMarkets.
NothingEscapes == out'.op = "refreshAllMarkets" => out'.promise = "resolved"

CyclesNeverOverlap == Cardinality({s \in Slots : Busy(s)}) <= 1

\* C6: registerRoutes starts a cycle and the timer; the timer stays set
\* whatever a cycle does, a failed one included; while it is set a tick can
\* start a cycle, and a tick's step starts one.
SchedulerNeverStops ==
  /\ [](started => /\ timerArmed
                   /\ (\E s \in Slots : Free(s)) => ENABLED TimerTick)
  /\ [][/\ (~started /\ started')
             => /\ timerArmed'
                /\ pc'[1] = "fetching" /\ origin'[1] = "scheduler"
        /\ (out'.op = "refreshAllMarkets" /\ out'.caught) => timerArmed'
        /\ TimerTick
             => \E s \in Slots : /\ Free(s) /\ pc'[s] = "fetching"
                                 /\ origin'[s] = "scheduler"]_vars

\* A cycle has just failed, and the next tick can start another.
C6_Witness ==
  /\ out.op = "refreshAllMarkets" /\ out.caught
  /\ timerArmed
  /\ ENABLED TimerTick

\* C7 as stated: deleteStaleMarkets(minutes) called at now removes exactly
\* the rows with lastUpdated < now - minutes, keeps the others as they were
\* and returns the number it removed.
DeleteStaleExact ==
  (out.op = "deleteStaleMarkets" /\ ~out.threw)
    => /\ store = {r \in out.before : r.lastUpdated >= now - out.minutes}
       /\ out.removed = Cardinality(out.before \ store)

\* C8 as stated: a cycle's eviction that runs before a row's lastUpdated +
\* 1440 minutes does not remove the row.
NoPrematureEviction ==
  [][\A s \in Slots :
       Evicted(s)
         => \A r \in store :
              r.externalId \notin Ids(store')
                => now >= r.lastUpdated + STALE_MARKET_THRESHOLD_MINUTES]_vars

\* C9: a cycle calls deleteStaleMarkets only from the step in which the
\* statement of the last chunk of its non-empty batch was executed without
\* an error; a cycle reports an eviction, and rows leave the table, only in
\* the step that follows.
EvictionOnlyAfterUpsert ==
  [][/\ \A s \in Slots :
          (pc'[s] = "evicting" /\ pc[s] # "evicting")
            => /\ pc[s] = "upserting"
               /\ Len(allMarkets[s]) > 0
               /\ chunkAt[s] + CHUNK_SIZE >= Len(allMarkets[s])
               /\ \A m \in Range(Chunk(s)) : m.externalId \in Ids(store')
               /\ out' = NoOutput
     /\ (out'.op = "refreshAllMarkets" /\ out'.eviction.ran)
          => \E s \in Slots : Evicted(s)
     /\ (\E r \in store : r.externalId \notin Ids(store'))
          => \E s \in Slots : Evicted(s)]_vars

\* A cycle's eviction has removed a row.
C9_Witness ==
  /\ out.op = "refreshAllMarkets"
  /\ out.eviction.ran /\ out.eviction.removed > 0

\* C10: a cycle whose adapters all resolved to the empty list returns from
\* the merge: no step of it changes the table or what getMarkets() lists,
\* and it reports no eviction and no error.
EmptyCycleWritesNothing ==
  [][\A s \in Slots :
       /\ (Merged(s) /\ NoneListed(s))
            => /\ store' = store
               /\ GetMarkets(store', zone, now') = GetMarkets(store, zone, now)
               /\ pc'[s] \in {"idle", "post_back"}
               /\ out' = [op |-> "refreshAllMarkets", caught |-> FALSE,
                          promise |-> "resolved", eviction |-> NoEviction]
       /\ (pc'[s] = "fetching" /\ (pc[s] = "idle" \/ fetched'[s] # fetched[s]))
            => store' = store]_vars

\* A cycle with an empty batch has returned, and the table has rows.
C10_Witness ==
  /\ out.op = "refreshAllMarkets"
  /\ ~out.caught /\ ~out.eviction.ran
  /\ store # {}

\* C11: when a statement of a cycle's upsertMarkets fails, the step ends the
\* cycle: the error is caught in refreshAllMarkets, whose promise resolves,
\* no eviction is run or reported and the table is as it was.  A cycle
\* enters upsertMarkets only from its merge, and inside it only moves on
\* from chunk to chunk: a failed write is not repeated by the same cycle.
UpsertFailureAbandonsCycle ==
  [][\A s \in Slots :
       /\ (pc[s] = "upserting" /\ pc'[s] \in {"idle", "post_back"})
            => /\ out' = [op |-> "refreshAllMarkets", caught |-> TRUE,
                          promise |-> "resolved", eviction |-> NoEviction]
               /\ store' = store
               /\ allMarkets'[s] = <<>>
       /\ (pc'[s] = "upserting" /\ pc[s] # "upserting") => Merged(s)
       /\ pc[s] = "upserting"
            => /\ pc'[s] \in {"upserting", "evicting", "idle", "post_back"}
               /\ pc'[s] = "upserting"
                    => /\ chunkAt'[s] >= chunkAt[s]
                       /\ allMarkets'[s] = allMarkets[s]]_vars

\* A cycle's upsert has thrown: nothing was ever written, and the cycle is
\* over.
C11_Witness ==
  /\ out.op = "refreshAllMarkets" /\ out.caught /\ ~out.eviction.ran
  /\ started /\ store = {} /\ zone = "UTC" /\ now = 0

\* The start of the current day: the latest instant up to now at which the
\* process's local clock shows 00:00.
Midnights == {60 * k : k \in (0 - 48)..24}
StartOfDay ==
  CHOOSE d \in Midnights :
    /\ d <= now /\ LocalTime(zone, d) % MinutesPerDay = 0
    /\ \A e \in Midnights :
         (e <= now /\ LocalTime(zone, e) % MinutesPerDay = 0) => e <= d

\* C12: getMarkets() returns, once each, exactly the rows of the table whose
\* endDate is null or not earlier than the start of the current day.
GetMarketsFiltersEnded ==
  (out.op = "getMarkets" /\ ~out.threw)
    => /\ Range(out.body) =
            {r \in store : r.endDate = NULL \/ r.endDate[1] >= StartOfDay}
       /\ \A j, k \in 1..Len(out.body) : out.body[j] = out.body[k] => j = k

\* getMarkets() has returned over a table with a row that ended before
\* today and a row that ends tomorrow: the first is absent, the second
\* present.
C12_Witness ==
  /\ out.op = "getMarkets" /\ ~out.threw
  /\ \E r \in store : /\ r.endDate # NULL
                       /\ r.endDate[1] < StartOfDay
                       /\ r \notin Range(out.body)
  /\ \E r \in store : /\ r.endDate # NULL
                       /\ r.endDate[1] >= StartOfDay + MinutesPerDay
                       /\ r \in Range(out.body)

\* C13: the rows getMarkets() returns are in non-increasing order of the
\* number totalVolume: of two adjacent rows the earlier one's is greater or
\* equal.
GetMarketsOrdered ==
  (out.op = "getMarkets" /\ ~out.threw)
    => \A k \in 1..(Len(out.body) - 1) :
         out.body[k].totalVolume >= out.body[k + 1].totalVolume

\* getMarkets() has returned two rows whose order as numbers is the
\* reverse of their order as texts: 1000 before 500.
C13_Witness ==
  /\ out.op = "getMarkets" /\ ~out.threw
  /\ Len(out.body) = 2
  /\ out.body[1].totalVolume > out.body[2].totalVolume
  /\ TextLess(Digits(out.body[1].totalVolume), Digits(out.body[2].totalVolume))

\* A step of cycle s inside upsertMarkets: a statement was executed or
\* failed.
UpsertStep(s) ==
  pc[s] = "upserting" /\ (pc'[s] # "upserting" \/ chunkAt'[s] # chunkAt[s])
Ended(r) == r.endDate # NULL /\ r.endDate[1] < StartOfDay

LastUpdatedIsWriteTime ==
  (out.op = "upsertMarkets" /\ ~out.threw)
    => \A m \in Range(out.list) :
         \E r \in store : /\ r.externalId = m.externalId
                          /\ out.began <= r.lastUpdated
                          /\ r.lastUpdated <= now

\* upsertMarkets has returned after inserting one row and updating another
\* that was written before the call began.
C15_Witness ==
  /\ out.op = "upsertMarkets" /\ ~out.threw
  /\ \E m \in Range(out.list) : m.externalId \notin Ids(out.before)
  /\ \E m \in Range(out.list) :
       \E r \in out.before : /\ r.externalId = m.externalId
                               /\ r.lastUpdated < out.began

\* C16: when upsertMarkets(list) returns without throwing, a row that was
\* in the table with the externalId of a record of the list has that
\* record's totalVolume, volume24h, question and endDate and a lastUpdated
\* of the write, and the externalId, platform, url, startDate and
\* resolutionRules it had before.  (The serial id is no field of a row
\* here: a row updated is the row it was.)
UpdateTouchesFiveColumns ==
  (out.op = "upsertMarkets" /\ ~out.threw)
    => \A r \in out.before :
         r.externalId \in Ids(Range(out.list))
           => LET m == LastFor(out.list, r.externalId) IN
              \E q \in store :
                /\ q.externalId = r.externalId
                /\ q.totalVolume = m.totalVolume
                /\ q.volume24h = m.volume24h
                /\ q.question = m.question
                /\ q.endDate = m.endDate
                /\ out.began <= q.lastUpdated /\ q.lastUpdated <= now
                /\ q.platform = r.platform
                /\ q.url = r.url
                /\ q.startDate = r.startDate
                /\ q.resolutionRules = r.resolutionRules

\* upsertMarkets has updated a row with a record that differs from it in
\* columns of both kinds.
C16_Witness ==
  /\ out.op = "upsertMarkets" /\ ~out.threw
  /\ \E r \in out.before, m \in Range(out.list) :
       /\ r.externalId = m.externalId
       /\ m.platform # r.platform /\ m.url # r.url
       /\ m.startDate # r.startDate
       /\ m.resolutionRules # r.resolutionRules
       /\ m.totalVolume # r.totalVolume /\ m.endDate # r.endDate
       /\ r.lastUpdated < out.began

\* A row is whole when the columns an upsert writes are those of one
\* record of its source, and the columns it leaves those of one platform's
\* market.
Whole(r) ==
  /\ \E v \in Versions :
       LET m == InsertMarket(r.platform, r.externalId, v)
       IN /\ r.totalVolume = m.totalVolume /\ r.volume24h = m.volume24h
          /\ r.question = m.question /\ r.endDate = m.endDate
  /\ \E p \in Adapters :
       LET m == InsertMarket(p, r.externalId, 1)
       IN /\ r.platform = m.platform /\ r.url = m.url
          /\ r.startDate = m.startDate
          /\ r.resolutionRules = m.resolutionRules

\* C17: every row that GET /api/markets returns, whatever upserts are in
\* flight, is whole: it is as a statement left it, with the values of one
\* record, never some columns of the record proposed and others of the row
\* before.
ReadersSeeWholeRows ==
  out.op = "GET" => \A k \in 1..Len(out.body) : Whole(out.body[k])

\* GET /api/markets has returned between two statements of an upsert: it
\* lists a row that the first wrote and the second is about to update.
C17_Witness ==
  /\ out.op = "GET" /\ out.status = 200
  /\ \E s \in Slots :
       /\ pc[s] = "upserting" /\ chunkAt[s] > 0
       /\ \E k \in 1..Len(out.body), m \in Range(Chunk(s)) :
            /\ out.body[k].externalId = m.externalId
            /\ out.body[k].totalVolume # m.totalVolume
            /\ \E j \in 1..chunkAt[s] :
                 Holds({out.body[k]}, allMarkets[s][j])

\* Cycle s is the only one in progress.
Alone(s) == \A q \in Slots : Busy(q) => q = s
\* A statement of cycle s was executed without an error.
Written(s) ==
  /\ pc[s] = "upserting"
  /\ pc'[s] = "evicting" \/ chunkAt'[s] > chunkAt[s]
NoneOlderThanThreshold ==
  \A r \in store : now - r.lastUpdated <= STALE_MARKET_THRESHOLD_MINUTES

\* C18 as stated, step by step: in a refresh cycle that overlaps no other
\* and meets no store failure, a statement leaves one row for each
\* externalId it proposes, with the proposed volumes, and every other row
\* as it was; the eviction, when no row is older than the threshold,
\* leaves the table as it is; and no other step of the cycle changes the
\* table.  So the table holds one row for every externalId the adapters
\* ever returned, with the volumes of the last cycle that returned it.
ReconciliationAsStated ==
  [][\A s \in Slots :
       Alone(s)
         => /\ Written(s)
                 => /\ \A m \in Range(Chunk(s)) :
                         /\ Holds(store', m)
                         /\ Cardinality({r \in store' :
                               r.externalId = m.externalId}) = 1
                    /\ \A r \in store :
                         r.externalId \notin Ids(Range(Chunk(s)))
                           => r \in store'
            /\ (Evicted(s) /\ out'.eviction.ran /\ NoneOlderThanThreshold)
                 => store' = store
            /\ (pc[s] = "fetching" \/ pc'[s] = "fetching") => store' = store]_vars

Failures == {"timeout", "network_error", "not_ok", "bad_json", "bad_shape",
             "bad_entry"}

\* C19: a call of fetchPolymarket or fetchKalshi settles by resolving,
\* never by rejecting, and on a timeout, a network error, a status that is
\* not ok, a body that is not JSON or not of the expected shape it
\* resolves to the empty list.
AdaptersNeverThrow ==
  /\ \A s \in Slots, a \in Adapters : fetched[s][a] # "rejected"
  /\ out.op = "fetch"
       => /\ out.result \in {"listed", "empty"}
          /\ out.response \in Failures => out.result = "empty"

\* An adapter's response.json() has thrown and the adapter resolved to [],
\* as the other adapter of the cycle did: Promise.all can resolve.
C19_Witness ==
  /\ out.op = "fetch" /\ out.response = "bad_json" /\ out.result = "empty"
  /\ \E s \in Slots : pc[s] = "fetching" /\ AllSettled(s) /\ NoneListed(s)

\* C20 as stated: every refresh cycle that has started gets past its
\* Promise.all, to the merge: each adapter call settles, by the timeout if
\* not before, even when a source never answers.
CycleReachesMerge ==
  \A s \in Slots : (pc[s] = "fetching") ~> (pc[s] # "fetching")

\* An adapter's mapping has returned.
Mapped == out.op \in {"fetchPolymarket", "fetchKalshi"}
\* A text that is a whole number: a sign, if any, and digits.
NumericText(s) ==
  LET body == IF s # <<>> /\ Head(s) = "-" THEN Tail(s) ELSE s
  IN body # <<>> /\ \A k \in 1..Len(body) : IsDigit(body[k])

\* C21 as stated: the totalVolume of a record is the decimal text of the
\* entry's volume when that is a finite number, sign included, and "0"
\* when it is null, undefined, NaN, not finite or a text that is no number.
NumericCoercion ==
  Mapped
    => \A k \in 1..Len(out.returned.records) :
         LET v == out.data[k].volume
             tv == out.returned.records[k].totalVolume
         IN /\ v.t = "number"
                 => tv = IF v.v < 0 THEN <<"-">> \o DecimalString(0 - v.v)
                                   ELSE DecimalString(v.v)
            /\ v.t \in {"null", "undefined", "NaN", "Infinity"}
                 => tv = <<"0">>
            /\ (v.t = "string" /\ ~NumericText(v.s)) => tv = <<"0">>

\* C22 as stated: the totalVolume of every record an adapter produces is a
\* decimal that is not negative.
VolumeNonNegative ==
  Mapped
    => \A k \in 1..Len(out.returned.records) :
         LET tv == out.returned.records[k].totalVolume
         IN \A j \in 1..Len(tv) : IsDigit(tv[j])

\* Both adapters of cycle s emitted a record with this externalId.
Collides(s, id) ==
  \E j, k \in 1..Len(allMarkets[s]) :
    /\ allMarkets[s][j].externalId = id /\ allMarkets[s][k].externalId = id
    /\ allMarkets[s][j].platform = "polymarket"
    /\ allMarkets[s][k].platform = "kalshi"
Collision(s) == \E id \in Ids(Range(allMarkets[s])) : Collides(s, id)
\* The statement in flight of cycle s is executed without an error.
StatementSucceeds(s) ==
  UpsertChunkStep(s) /\ pc'[s] \in {"upserting", "evicting"}

\* C23 as stated: when both adapters of a cycle emit a record with the same
\* externalId, every statement of the cycle's upsert can be executed, and
\* when upsertMarkets returns the table holds exactly one row with that
\* id, with the volumes of one of the two records.
CollisionOverwrites ==
  /\ [](\A s \in Slots :
          (pc[s] = "upserting" /\ Collision(s)) => ENABLED StatementSucceeds(s))
  /\ [][\A s \in Slots :
          (UpsertDone(s) /\ Collision(s))
            => \A id \in Ids(Range(allMarkets[s])) :
                 Collides(s, id)
                   => /\ Cardinality({r \in store' : r.externalId = id}) = 1
                      /\ \E m \in Range(allMarkets[s]) :
                           m.externalId = id /\ Holds(store', m)]_vars

\* The identifiers an entry of the source carries.
Provided(m) ==
  IF out.op = "fetchPolymarket" THEN {m.id, m.ticker} ELSE {m.ticker}
NonEmptyText(x) == x.t = "string" /\ x.s # <<>>

\* C24: the externalId of every record an adapter returns is a text that
\* is not empty and is the id or the ticker of its source entry; an entry
\* that has neither yields no record.
ExternalIdFromSource ==
  Mapped
    => LET m == out.data[1]
           records == out.returned.records
       IN /\ \A k \in 1..Len(records) :
               /\ NonEmptyText(records[k].externalId)
               /\ records[k].externalId \in Provided(m)
          /\ (\A x \in Provided(m) : ~NonEmptyText(x)) => records = <<>>

\* fetchPolymarket has mapped an entry whose id is the empty text to a
\* record with the entry's ticker.
C24_Witness ==
  /\ out.op = "fetchPolymarket"
  /\ out.data[1].id = Str(<<>>)
  /\ Len(out.returned.records) = 1
  /\ out.returned.records[1].externalId = out.data[1].ticker

\* The entry is active or open by its platform's status fields.
ActiveBySource(m) ==
  IF out.op = "fetchPolymarket"
  THEN m.active = Bool(TRUE) /\ m.closed # Bool(TRUE)
  ELSE m.status \notin {Str(<<"c", "l", "o", "s", "e", "d">>),
                        Str(<<"s", "e", "t", "t", "l", "e", "d">>)}

\* C25 as stated: an adapter returns a record only for an entry that its
\* platform's status fields mark active or open.
OnlyActiveEntries ==
  Mapped => (out.returned.records # <<>> => ActiveBySource(out.data[1]))

\* A text that does not begin with a number, and a text that is no date.
UnparseableNumber(x) ==
  /\ x.t = "string"
  /\ LET body == IF x.s # <<>> /\ Head(x.s) = "-" THEN Tail(x.s) ELSE x.s
     IN body = <<>> \/ ~IsDigit(Head(body))
UnparseableDate(x) == x.t = "string" /\ x.s # <<>> /\ x.s # DateText
\* The adapter's mapping, and the entry with a field set right.
MapOf(data) ==
  IF out.op = "fetchPolymarket" THEN PolymarketMap(data) ELSE KalshiMap(data)
DateOf(m) == IF out.op = "fetchPolymarket" THEN m.endDate ELSE m.close_date
WithVolume(m) == [m EXCEPT !.volume = Num(150)]
WithDate(m) ==
  IF out.op = "fetchPolymarket" THEN [m EXCEPT !.endDate = Str(DateText)]
  ELSE [m EXCEPT !.close_date = Str(DateText)]

\* C28: an entry whose volume is an unparseable text is mapped as the same
\* entry with a valid volume is: the adapter returns or fails alike, and
\* the record, if any, is the same but for totalVolume, which is "0".  An
\* entry whose end date is an unparseable text is mapped as the same entry
\* with a valid date, but for endDate, which is null.
BadFieldCoercedLocally ==
  Mapped
    => LET m == out.data[1]
           records == out.returned.records
           v == MapOf(<<WithVolume(m)>>)
           d == MapOf(<<WithDate(m)>>)
       IN /\ UnparseableNumber(m.volume)
               => /\ out.returned.result = v.result
                  /\ Len(records) = Len(v.records)
                  /\ \A k \in 1..Len(records) :
                       records[k] = [v.records[k] EXCEPT !.totalVolume = <<"0">>]
          /\ UnparseableDate(DateOf(m))
               => /\ out.returned.result = d.result
                  /\ Len(records) = Len(d.records)
                  /\ \A k \in 1..Len(records) :
                       records[k] = [d.records[k] EXCEPT !.endDate = NULL]

\* An entry with an unparseable volume and an unparseable end date has
\* yielded a record, with its title trimmed.
C28_Witness ==
  /\ Mapped
  /\ UnparseableNumber(out.data[1].volume)
  /\ UnparseableDate(DateOf(out.data[1]))
  /\ Len(out.returned.records) = 1
  /\ out.returned.records[1].totalVolume = <<"0">>
  /\ out.returned.records[1].endDate = NULL
  /\ out.returned.records[1].question = <<"Q">>

\* The POST handler answers: res.json(markets), or the 500.
PostResponded(s) == pc[s] = "post_back" /\ pc'[s] = "idle"
InBody(body, m) ==
  \E j \in 1..Len(body) : body[j].externalId = m.externalId
NotEnded(m) == m.endDate = NULL \/ m.endDate[1] >= Today(zone, now)

\* C26 as stated: the body of a POST's 200 response has a row for every
\* record that the POST's cycle upserted and whose end date passes the
\* filter of getMarkets.
PostReturnsWhatItUpserted ==
  [][\A s \in Slots :
       PostResponded(s) /\ out'.status = 200
         => \A k \in 1..Len(applied[s]) :
              NotEnded(applied[s][k]) => InBody(out'.body, applied[s][k])]_vars

\* The adapter's promise has settled: with records, or with [].
HasSettled(s, a) == fetched[s][a] \in {"listed", "empty"}
Dispatched(s) == pc[s] = "idle" /\ pc'[s] = "fetching"

\* C29: a cycle dispatches both adapters in one step, and while both are
\* pending either may settle first; as long as an adapter of the cycle has
\* not settled, the cycle stays at Promise.all with nothing merged and no
\* statement executed; a cycle that is upserting or evicting has both
\* adapters settled.
AllSettleBarrier ==
  /\ [](\A s \in Slots :
          /\ pc[s] \in {"upserting", "evicting"}
               => \A a \in Adapters : HasSettled(s, a)
          /\ (pc[s] = "fetching" /\ \A a \in Adapters : fetched[s][a] = Pending)
               => /\ ENABLED FetchPolymarket(s)
                  /\ ENABLED FetchKalshi(s))
  /\ [][\A s \in Slots :
         /\ Dispatched(s) => \A a \in Adapters : fetched'[s][a] = Pending
         /\ (pc[s] = "fetching" /\ \E a \in Adapters : ~HasSettled(s, a))
              => /\ pc'[s] = "fetching"
                 /\ allMarkets'[s] = <<>>
                 /\ applied'[s] = <<>>]_vars

\* Two cycles wait at Promise.all: in one polymarket has settled and kalshi
\* is pending, in the other kalshi has settled and polymarket is pending.
C29_Witness ==
  /\ pc[1] = "fetching" /\ pc[2] = "fetching"
  /\ HasSettled(1, "polymarket") /\ fetched[1]["kalshi"] = Pending
  /\ HasSettled(2, "kalshi") /\ fetched[2]["polymarket"] = Pending

\* upsertMarkets throws at, or returns to, its direct caller.
Threw(s) == pc[s] = "upserting" /\ out'.op = "upsertMarkets" /\ out'.threw
Finished(s) == pc[s] = "upserting" /\ out'.op = "upsertMarkets" /\ ~out'.threw
\* A chunk's statement has executed.
Executed(s) ==
  /\ pc[s] = "upserting"
  /\ ~Threw(s)
  /\ pc'[s] # "upserting" \/ chunkAt'[s] # chunkAt[s]

\* C30: while upsertMarkets runs, the statements executed so far are the
\* batch's first chunkAt records, in batch order, in chunks of CHUNK_SIZE,
\* and the next statement is of at most CHUNK_SIZE records.  When a
\* statement fails, upsertMarkets throws to its caller, the table is as it
\* was before that statement, with the records of the chunks before it
\* stored, and no later statement is executed.  upsertMarkets returns
\* without an error only when every chunk's statement has executed.
ChunkedWriteFailure ==
  /\ [](pc[1] = "upserting"
         => /\ chunkAt[1] % CHUNK_SIZE = 0
            /\ chunkAt[1] < Len(allMarkets[1])
            /\ applied[1] = SubSeq(allMarkets[1], 1, chunkAt[1])
            /\ Len(Chunk(1)) \in 1..CHUNK_SIZE)
  /\ [][/\ Threw(1)
            => /\ out'.list = allMarkets[1]
               /\ store' = store
               /\ \A k \in 1..chunkAt[1] : Holds(store', allMarkets[1][k])
               /\ pc'[1] = "idle"
        /\ Finished(1) => applied[1] \o Chunk(1) = allMarkets[1]
        /\ Executed(1)
            => /\ ~ChunkConflictsWithItself(Chunk(1))
               /\ chunkAt'[1] = chunkAt[1] + CHUNK_SIZE \/ Finished(1)
               /\ \A m \in Range(Chunk(1)) : Holds(store', m)
               /\ \A r \in store :
                    r.externalId \notin Ids(Range(Chunk(1))) => r \in store'
               /\ Ids(store') = Ids(store) \cup Ids(Range(Chunk(1)))]_vars

\* upsertMarkets was called with three records on an empty table and
\* threw at the second chunk: the two records of the first chunk are
\* stored, the third is not.
C30_Witness ==
  /\ out.op = "upsertMarkets" /\ out.threw
  /\ out.before = {}
  /\ Len(out.list) = CHUNK_SIZE + 1
  /\ Ids(store) = {"a1", "b1"}
  /\ \A k \in 1..CHUNK_SIZE : Holds(store, out.list[k])
  /\ ~Holds(store, out.list[CHUNK_SIZE + 1])

\* The table has a row for id that no upsert has touched for longer than
\* the threshold.
MarketIds == {"a1", "b1"}
Unseen(id) ==
  \E r \in store : /\ r.externalId = id
                   /\ r.lastUpdated + STALE_MARKET_THRESHOLD_MINUTES < now
\* A cycle has returned from deleteStaleMarkets.
EvictionRan == out.op = "refreshAllMarkets" /\ out.eviction.ran

WithoutStamps(rows) == {[r EXCEPT !.lastUpdated = 0] : r \in rows}
DistinctIds(list) ==
  \A j, k \in 1..Len(list) : list[j].externalId = list[k].externalId => j = k
OutsideBatch(rows, list) ==
  {r \in rows : r.externalId \notin Ids(Range(list))}

\* C31: when upsertMarkets returns without an error from a list of distinct
\* externalIds, the table is, lastUpdated of the list's rows apart, the
\* table that one statement for the whole list makes of the table before
\* the call.
ChunkingIsTransparent ==
  (out.op = "upsertMarkets" /\ ~out.threw /\ DistinctIds(out.list))
    => LET whole == UpsertUnchunked(out.before, out.list, out.began, out.began)
       IN /\ WithoutStamps(store) = WithoutStamps(whole)
          /\ OutsideBatch(store, out.list) = OutsideBatch(whole, out.list)

\* upsertMarkets has returned from a list of three markets, on a table
\* that had a row: its two statements ran at different times.
C31_Witness ==
  /\ out.op = "upsertMarkets" /\ ~out.threw /\ DistinctIds(out.list)
  /\ Len(out.list) > CHUNK_SIZE
  /\ out.before # {}
  /\ \E r, q \in store : r.lastUpdated = 0 /\ q.lastUpdated > 0

\* C32: after upsertMarkets(list), returned or thrown, every externalId of
\* the table before the call is in the table, every other one is of the
\* list, and the rows of externalIds not in the list are as they were;
\* when it returned, every externalId of the list is in the table, so that
\* the table's externalIds are those before the call and the list's.  (A
\* call that threw has stored the list's chunks before the failed one.)
UpsertFrame ==
  out.op = "upsertMarkets"
    => /\ Ids(out.before) \subseteq Ids(store)
       /\ Ids(store) \subseteq Ids(out.before) \cup Ids(Range(out.list))
       /\ ~out.threw => Ids(Range(out.list)) \subseteq Ids(store)
       /\ OutsideBatch(store, out.list) = OutsideBatch(out.before, out.list)

\* upsertMarkets has returned: it added an externalId to a table that has
\* a row of an externalId not in the list.
C32_Witness ==
  /\ out.op = "upsertMarkets" /\ ~out.threw
  /\ Ids(store) # Ids(out.before)
  /\ OutsideBatch(store, out.list) # {}

\* C33 as stated: when a cycle ends after its upsert succeeded and its
\* eviction ran, the table has a row for every externalId of the cycle's
\* batch.
CycleKeepsWhatItWrote ==
  [][\A s \in Slots :
       (Evicted(s) /\ out'.op = "refreshAllMarkets" /\ out'.eviction.ran)
         => Ids(Range(allMarkets[s])) \subseteq Ids(store')]_vars

\* Cycle s is in flight, and started before cycle q, which is in flight.
StartedBefore(s, q) == s # q /\ newest = q /\ Busy(s) /\ Busy(q)

\* C34 as stated, its second half: a statement of a cycle leaves the
\* volume fields of the rows that a cycle started after it has written.
LaterCycleWins ==
  [][\A s, q \in Slots :
       (StartedBefore(s, q) /\ pc[s] = "upserting")
         => \A k \in 1..Len(applied[q]) :
              Holds(store, applied[q][k]) => Holds(store', applied[q][k])]_vars

\* C35 as stated: no step takes the lastUpdated of a row that stays in the
\* table back in time.
LastUpdatedNeverDecreases ==
  [][\A r \in store : \A q \in store' :
       q.externalId = r.externalId => q.lastUpdated >= r.lastUpdated]_vars

\* deleteStaleMarkets has thrown in cycle s.
DeleteThrew(s) ==
  Evicted(s) /\ out'.op = "refreshAllMarkets" /\ out'.caught

\* C36: when deleteStaleMarkets throws in a cycle, after its upsert, the
\* table stays as it is, with the rows the upsert wrote and with the rows
\* the DELETE would have removed; refreshAllMarkets' promise resolves, and
\* the cycle ends without an eviction.
DeleteFailureKeepsRows ==
  [][\A s \in Slots :
       DeleteThrew(s)
         => /\ store' = store
            /\ applied[s] = allMarkets[s] /\ allMarkets[s] # <<>>
            /\ out'.promise = "resolved"
            /\ out'.eviction = NoEviction
            /\ pc'[s] \in {"idle", "post_back"}]_vars

\* A cycle that upserted b1 a day after a1 was last upserted has ended in
\* its catch: b1 is stored, and the row of a1 has not been removed.
C36_Witness ==
  /\ out.op = "refreshAllMarkets" /\ out.caught
  /\ now > LastRun + STALE_MARKET_THRESHOLD_MINUTES
  /\ \E r \in store : r.externalId = "a1" /\ r.lastUpdated = LastRun
  /\ \E r \in store : r.externalId = "b1" /\ r.lastUpdated = now
  /\ \A s \in Slots : pc[s] = "idle"

\* The entry passes the adapter's filters; its title is a value that is
\* truthy and no text.
Kept(m) ==
  IF out.op = "fetchPolymarket" THEN PolymarketActive(m) /\ PolymarketHasId(m)
  ELSE KalshiHasTicker(m)
TitleOf(m) == IF out.op = "fetchPolymarket" THEN m.question ELSE m.title
BadTitle(m) == Truthy(TitleOf(m)) /\ TitleOf(m).t # "string"
KeptEntries == {k \in 1..Len(out.data) : Kept(out.data[k])}

\* C37: when the mapping of an entry that the filters keep throws, the
\* adapter returns [] for the whole response, whatever its other entries;
\* when none throws, it returns one record for each entry kept.
MappingAllOrNothing ==
  Mapped
    => IF \E k \in KeptEntries : BadTitle(out.data[k])
       THEN out.returned = [result |-> "empty", records |-> <<>>]
       ELSE Len(out.returned.records) = Cardinality(KeptEntries)

\* The response's first entry maps to a record, its second entry has a
\* number for a title: the adapter has returned [].
C37_Witness ==
  /\ Mapped
  /\ Len(out.data) = 2
  /\ out.data[1] \in {GoodPolymarketEntry, GoodKalshiEntry}
  /\ Kept(out.data[2]) /\ BadTitle(out.data[2])
  /\ out.returned.records = <<>>
====
